---- MODULE Spec2Model ----
(***************************************************************************)
(* Chronos MVP: the binary artifact scanner (disk_image.rs, mft_parser.rs) *)
(* and the Timeline aggregator (timeline.rs) as driven by main.rs.         *)
(*                                                                         *)
(* 64-bit quantities are kept at full width.  TLC integers are 32 bits, so *)
(* a 64-bit value v is held as a record [d, s, r] with                     *)
(*     v = (d * 86400 + s) * 10000000 + r,  0 <= s < 86400, 0 <= r < 10^7  *)
(* (d may be negative for signed values).  Every component fits in 32 bits *)
(* for every value between -2^64 and 2^64.                                 *)
(***************************************************************************)
EXTENDS Integers, Sequences, FiniteSets, TLC

VARIABLES
    overflow_checks, \* build profile: TRUE = debug (overflow panics), FALSE = release (wraps)
    image,           \* DiskImage.data: [blocks: Seq(block id), tail: number of trailing bytes]
    now,             \* the wall clock read by Utc::now(), never running backwards
    pc,              \* position of main / parse_mft / parse_mft_entry
    offset,          \* parse_mft: let mut offset
    events_found,    \* parse_mft: let mut events_found
    limited,         \* parse_mft: the "MFT parsing limited ..." message was logged
    attr_offset,     \* parse_mft_entry: let mut attr_offset
    attributes,      \* parse_mft_entry: let mut attributes
    timeline,        \* Timeline.events
    sort_calls,      \* number of calls of Timeline::sort made by main
    rendered,        \* the sequence handed to html_generator::generate_html
    slice_req,       \* get_slice harness: the (offset, length) requested
    slice_res,       \* get_slice harness: the outcome
    tick_in,         \* time codec harness: the pair of ticks converted
    tick_out         \* time codec harness: the pair of outcomes

vars == <<overflow_checks, image, now, pc, offset, events_found, limited,
          attr_offset, attributes, timeline, sort_calls, rendered,
          slice_req, slice_res, tick_in, tick_out>>

-----------------------------------------------------------------------------
(* Bounds of the model *)

\* largest number of blocks of an image in Spec
MaxBlocks == 2
\* the attribute vector is followed up to this length
MaxAttrs == 6
\* longest timeline and largest number of sorts when the methods of Timeline are
\* called in any order
MaxEvents == 3
MaxSorts == 2

-----------------------------------------------------------------------------
(* 64-bit arithmetic *)

Norm(d, s, r) ==
    LET s1 == s + (r \div 10000000)
    IN  [d |-> d + (s1 \div 86400), s |-> s1 % 86400, r |-> r % 10000000]

Add64(a, b) == Norm(a.d + b.d, a.s + b.s, a.r + b.r)
Sub64(a, b) == Norm(a.d - b.d, a.s - b.s, a.r - b.r)
Less64(a, b) ==
    \/ a.d < b.d
    \/ a.d = b.d /\ a.s < b.s
    \/ a.d = b.d /\ a.s = b.s /\ a.r < b.r

Zero64 == [d |-> 0, s |-> 0, r |-> 0]
\* 2^63 = 9223372036854775808 and 2^64 = 18446744073709551616
Two63 == [d |-> 10675199, s |-> 10085, r |-> 4775808]
Two64 == [d |-> 21350398, s |-> 20170, r |-> 9551616]
I64Min == Sub64(Zero64, Two63)

Times16(a) == Norm(a.d * 16, a.s * 16, a.r * 16)
Times256(a) == Times16(Times16(a))
Small64(n) == Norm(0, 0, n)
\* the number a 64-bit record stands for, when it is below 2^31
ToInt(a) == (a.d * 86400 + a.s) * 10000000 + a.r

\* instants (DateTime<Utc> at whole seconds): [d, s] = day and second of day
\* counted from 1970-01-01T00:00:00Z
TimeLess(a, b) == a.d < b.d \/ (a.d = b.d /\ a.s < b.s)
TimeLeq(a, b) == ~TimeLess(b, a)

-----------------------------------------------------------------------------
(* Reading little-endian fields (byteorder::ReadBytesExt on a Cursor).       *)
(* A slice is a view [off, len] into the image; positions are 0-based.       *)

\* the n bytes of a byte sequence from 0-based position pos, as a number
\* (n <= 2: u8, u16) or as a 64-bit record (u32, u64)
RECURSIVE ReadLE(_, _, _)
ReadLE(bytes, pos, n) ==
    IF n = 0 THEN 0 ELSE bytes[pos + 1] + 256 * ReadLE(bytes, pos + 1, n - 1)

RECURSIVE Read64(_, _, _)
Read64(bytes, pos, n) ==
    IF n = 0 THEN Zero64
    ELSE Add64(Small64(bytes[pos + 1]), Times256(Read64(bytes, pos + 1, n - 1)))

-----------------------------------------------------------------------------
(* Blocks an image is built from *)

LE16(n) == <<n % 256, n \div 256>>
LE32(n) == <<n % 256, (n \div 256) % 256, (n \div 65536) % 256, n \div 16777216>>
Zeros(n) == [i \in 1..n |-> 0]

\* base with bytes written at 0-based position pos
Put(base, pos, bytes) ==
    [i \in 1..Len(base) |->
        IF i > pos /\ i <= pos + Len(bytes) THEN bytes[i - pos] ELSE base[i]]

RECURSIVE PutAll(_, _)
PutAll(base, pieces) ==
    IF pieces = <<>> THEN base
    ELSE PutAll(Put(base, pieces[1][1], pieces[1][2]), Tail(pieces))

\* native timestamps (little-endian FILETIME bytes) used in the blocks
TK_OLD    == <<0, 74, 123, 233, 34, 4, 216, 1>>        \* 2022-01-08T00:01:40Z
TK_R1     == <<135, 230, 233, 25, 101, 199, 218, 1>>   \* 2024-06-26T01:06:40.1234567Z
TK_R2     == <<0, 44, 203, 197, 98, 199, 218, 1>>      \* 2024-06-26T00:50:00Z
TK_R3     == <<127, 222, 87, 114, 96, 199, 218, 1>>    \* 2024-06-26T00:33:20.9999999Z
TK_R4     == <<1, 100, 179, 29, 94, 199, 218, 1>>      \* 2024-06-26T00:16:40.0000001Z
TK_EDGE   == <<128, 86, 200, 226, 30, 247, 217, 1>>    \* 2023-10-05T00:00:01Z
TK_FUTURE == <<0, 128, 210, 29, 249, 199, 249, 1>>     \* 2052-02-20T00:00:00Z
TK_POW63  == <<0, 0, 0, 0, 0, 0, 0, 128>>              \* 2^63
TK_NEG    == <<0, 128, 62, 213, 222, 177, 157, 129>>   \* 2^63 + 116444736000000000

SIG_FILE == <<70, 73, 76, 69>>   \* "FILE"
SIG_BAAD == <<66, 65, 65, 68>>   \* "BAAD"
NAME_NOTES == <<110, 0, 111, 0, 116, 0, 101, 0, 115, 0, 46, 0, 116, 0, 120, 0, 116, 0>>
NAME_A == <<97, 0>>
NAME_B == <<98, 0>>
NAME_LONE == <<0, 216>>          \* the unpaired surrogate 0xD800
TYPE_FN == LE32(48)
TYPE_SI == LE32(16)
TYPE_END == <<255, 255, 255, 255>>

\* the bytes of an attribute header followed by the resident content words
AttrBytes(type, length, nonres, coff, csize) ==
    type \o length \o <<nonres, 0, 0, 0, 0, 0, 0, 0>> \o LE16(coff) \o LE16(csize)

\* an attribute whose declared length leads past the end of the entry
EndAttr == AttrBytes(TYPE_END, LE32(1024), 0, 0, 0)

\* the content of a file-naming attribute
FnContent(t1, t2, t3, t4, namelen, name) ==
    Zeros(8) \o t1 \o t2 \o t3 \o t4 \o Zeros(20) \o <<namelen>> \o Zeros(5) \o name

\* an entry: signature, attribute_offset, then the pieces
Entry(sig, aoff, pieces) ==
    PutAll(Zeros(1024), <<<<0, sig>>, <<8, LE16(aoff)>>>> \o pieces)

\* an entry with one file-naming attribute at 56 (content at 80) and an end attribute
FnEntry(sig, t1, t2, t3, t4, namelen, name, csize, alen) ==
    Entry(sig, 56,
          << <<56, AttrBytes(TYPE_FN, LE32(alen), 0, 24, csize)>>,
             <<80, FnContent(t1, t2, t3, t4, namelen, name)>>,
             <<56 + alen, EndAttr>> >>)

B_NOTES == FnEntry(SIG_FILE, TK_R1, TK_R2, TK_R3, TK_R4, 9, NAME_NOTES, 84, 112)
B_BADSIG == FnEntry(SIG_BAAD, TK_R1, TK_R2, TK_R3, TK_R4, 9, NAME_NOTES, 84, 112)
B_OLD == FnEntry(SIG_FILE, TK_OLD, TK_OLD, TK_OLD, TK_OLD, 1, NAME_A, 68, 96)
B_SAME == FnEntry(SIG_FILE, TK_EDGE, TK_EDGE, TK_R2, TK_R2, 1, NAME_LONE, 68, 96)
B_FUTURE == FnEntry(SIG_FILE, TK_FUTURE, TK_OLD, TK_R3, TK_OLD, 1, NAME_A, 68, 96)
B_OVERFLOW == FnEntry(SIG_FILE, TK_R1, TK_POW63, TK_NEG, TK_R4, 1, NAME_A, 68, 96)
\* the content is shorter than the 66 fixed bytes
B_SHORT == FnEntry(SIG_FILE, TK_R1, TK_R2, TK_R3, TK_R4, 0, <<>>, 40, 64)
\* the filename field declares 3 characters and the content ends at byte 66
B_OVERRUN == FnEntry(SIG_FILE, TK_R1, TK_R2, TK_R3, TK_R4, 3, <<>>, 66, 96)
\* a standard-information attribute of declared length 0
B_ZEROLEN ==
    Entry(SIG_FILE, 56, << <<56, AttrBytes(TYPE_SI, LE32(0), 0, 24, 8)>> >>)
\* attribute_offset beyond the entry: no attribute is decoded
B_NOATTR == Entry(SIG_FILE, 2000, <<>>)
\* a short file-naming attribute, then a second one that decodes
B_TWOFN ==
    Entry(SIG_FILE, 56,
          << <<56, AttrBytes(TYPE_FN, LE32(64), 0, 24, 40)>>,
             <<120, AttrBytes(TYPE_FN, LE32(96), 0, 24, 68)>>,
             <<144, FnContent(TK_R2, TK_OLD, TK_OLD, TK_OLD, 1, NAME_B)>>,
             <<216, EndAttr>> >>)
\* two file-naming attributes that both decode
B_FIRSTFN ==
    Entry(SIG_FILE, 56,
          << <<56, AttrBytes(TYPE_FN, LE32(96), 0, 24, 68)>>,
             <<80, FnContent(TK_R3, TK_OLD, TK_OLD, TK_OLD, 1, NAME_A)>>,
             <<152, AttrBytes(TYPE_FN, LE32(96), 0, 24, 68)>>,
             <<176, FnContent(TK_R2, TK_OLD, TK_OLD, TK_OLD, 1, NAME_B)>>,
             <<248, EndAttr>> >>)
\* a non-resident file-naming attribute
B_NONRES ==
    Entry(SIG_FILE, 56,
          << <<56, AttrBytes(TYPE_FN, LE32(96), 1, 24, 68)>>,
             <<80, FnContent(TK_R1, TK_R2, TK_R3, TK_R4, 1, NAME_A)>>,
             <<152, EndAttr>> >>)
\* a file-naming attribute of declared length 24 whose content (68 bytes at 24)
\* lies behind it; the content starts with the bytes of an end attribute
B_BEYOND ==
    Entry(SIG_FILE, 56,
          << <<56, AttrBytes(TYPE_FN, LE32(24), 0, 24, 68)>>,
             <<80, FnContent(TK_R4, TK_OLD, TK_OLD, TK_OLD, 1, NAME_B)>>,
             <<80, TYPE_END \o LE32(1024)>> >>)
\* an attribute header 18 bytes before the end of the entry
B_TAILATTR ==
    Entry(SIG_FILE, 1006, << <<1006, AttrBytes(TYPE_FN, LE32(8), 0, 0, 0)>> >>)

\* a file-naming attribute whose content words (100 bytes at 1000) point past the
\* end of the entry
B_PASTEND ==
    Entry(SIG_FILE, 56,
          << <<56, AttrBytes(TYPE_FN, LE32(96), 0, 1000, 100)>>,
             <<152, EndAttr>> >>)
\* a standard-information attribute whose content (8 bytes at 960) ends with the
\* last byte of the entry
B_FITS ==
    Entry(SIG_FILE, 56,
          << <<56, AttrBytes(TYPE_SI, LE32(968), 0, 960, 8)>>,
             <<1016, <<1, 2, 3, 4, 5, 6, 7, 8>> >> >>)
\* attribute_offset 1019: five bytes are left, fewer than a header
B_LASTWORD == Entry(SIG_FILE, 1019, <<>>)
\* an attribute of the largest declared length, 0xFFFFFFFF
B_HUGELEN ==
    Entry(SIG_FILE, 56,
          << <<56, AttrBytes(TYPE_SI, <<255, 255, 255, 255>>, 0, 24, 8)>> >>)

BlockTable ==
    << B_NOTES, B_BADSIG, B_OLD, B_SAME, B_FUTURE, B_OVERFLOW, B_SHORT, B_OVERRUN,
       B_ZEROLEN, B_NOATTR, B_TWOFN, B_FIRSTFN, B_NONRES, B_BEYOND, B_TAILATTR,
       B_PASTEND, B_FITS, B_LASTWORD, B_HUGELEN >>
BlockIds == 1..Len(BlockTable)

-----------------------------------------------------------------------------
(* disk_image.rs *)

\* DiskImage::size
size(img) == Len(img.blocks) * 1024 + img.tail

\* the byte of the mapping at 0-based index i (the bytes after the last whole
\* block are zero)
ImageByte(img, i) ==
    IF i < Len(img.blocks) * 1024
    THEN BlockTable[img.blocks[(i \div 1024) + 1]][(i % 1024) + 1]
    ELSE 0

\* the bytes a slice [off, len] views, from 0-based position pos, n of them
BytesAt(img, slice, pos, n) ==
    [i \in 1..n |-> ImageByte(img, slice.off + pos + i - 1)]

\* DiskImage::get_slice; offset and length are 64-bit records
get_slice(img, off64, len64) ==
    LET sum == Add64(off64, len64)
        overflow == ~Less64(sum, Two64)
        wrapped == IF overflow THEN Sub64(sum, Two64) ELSE sum
        len == Small64(size(img))
    IN  IF overflow /\ overflow_checks
        THEN [kind |-> "panic"]                        \* attempt to add with overflow
        ELSE IF Less64(len, wrapped)
        THEN [kind |-> "err"]                          \* bail!
        ELSE IF Less64(wrapped, off64)
        THEN [kind |-> "panic"]                        \* slice index starts after its end
        ELSE [kind |-> "ok", off |-> ToInt(off64), len |-> ToInt(len64)]

-----------------------------------------------------------------------------
(* mft_parser.rs: decoding *)

MFT_SIGNATURE == SIG_FILE
MFT_ENTRY_SIZE == 1024
FILE_NAME_TYPE == Small64(48)   \* 0x30

\* (mutation of parse_attribute: the content region is not compared with the
\* length of the data)
parse_attribute_unchecked(img, data) ==
    IF data.len < 16 THEN [kind |-> "err"]
    ELSE
      LET hdr == BytesAt(img, data, 0, 16)
          attribute_type == Read64(hdr, 0, 4)
          attribute_length == Read64(hdr, 4, 4)
          non_resident == hdr[9] # 0
          Attr(content) ==
              [kind |-> "ok",
               attribute_type |-> attribute_type,
               attribute_length |-> attribute_length,
               non_resident |-> non_resident,
               name_length |-> hdr[10],
               content |-> content]
      IN  IF non_resident THEN Attr(<<>>)
          ELSE IF data.len < 20 THEN [kind |-> "err"]
          ELSE
            LET content_offset == ReadLE(BytesAt(img, data, 16, 2), 0, 2)
                content_size == ReadLE(BytesAt(img, data, 18, 2), 0, 2)
            IN  Attr(BytesAt(img, data, content_offset, content_size))

\* parse_attribute(data): data is a slice [off, len] of the image
parse_attribute(img, data) ==
    IF data.len < 16 THEN [kind |-> "err"]
    ELSE
      LET hdr == BytesAt(img, data, 0, 16)
          attribute_type == Read64(hdr, 0, 4)
          attribute_length == Read64(hdr, 4, 4)
          non_resident == hdr[9] # 0
          Attr(content) ==
              [kind |-> "ok",
               attribute_type |-> attribute_type,
               attribute_length |-> attribute_length,
               non_resident |-> non_resident,
               name_length |-> hdr[10],
               content |-> content]
      IN  IF non_resident THEN Attr(<<>>)
          ELSE IF data.len < 20 THEN [kind |-> "err"]   \* read_u16 hits the end
          ELSE
            LET content_offset == ReadLE(BytesAt(img, data, 16, 2), 0, 2)
                content_size == ReadLE(BytesAt(img, data, 18, 2), 0, 2)
            IN  IF content_offset + content_size <= data.len
                THEN Attr(BytesAt(img, data, content_offset, content_size))
                ELSE Attr(<<>>)

\* String::from_utf16_lossy over the 16-bit units of a byte sequence
IsHigh(u) == u >= 55296 /\ u <= 56319
IsLow(u) == u >= 56320 /\ u <= 57343
RECURSIVE from_utf16_lossy(_)
from_utf16_lossy(units) ==
    IF units = <<>> THEN <<>>
    ELSE IF IsHigh(units[1]) /\ Len(units) >= 2 /\ IsLow(units[2])
    THEN <<65536 + (units[1] - 55296) * 1024 + (units[2] - 56320)>>
         \o from_utf16_lossy(Tail(Tail(units)))
    ELSE IF IsHigh(units[1]) \/ IsLow(units[1])
    THEN <<65533>> \o from_utf16_lossy(Tail(units))
    ELSE <<units[1]>> \o from_utf16_lossy(Tail(units))

\* parse_filename_attribute(data): data is the content of an attribute
parse_filename_attribute(data) ==
    IF Len(data) < 66 THEN [kind |-> "err"]
    ELSE
      LET filename_length == data[61]
          last == 66 + filename_length * 2
      IN  IF last > Len(data) THEN [kind |-> "panic"]   \* range end out of bounds
          ELSE [kind |-> "ok",
                creation_time |-> Read64(data, 8, 8),
                last_access_time |-> Read64(data, 16, 8),
                last_write_time |-> Read64(data, 24, 8),
                mft_change_time |-> Read64(data, 32, 8),
                filename_length |-> filename_length,
                filename |-> from_utf16_lossy(
                    [k \in 1..filename_length |-> ReadLE(data, 66 + 2 * (k - 1), 2)])]

\* (mutation of extract_file_info: a later attribute that decodes is preferred)
RECURSIVE extract_file_info_last(_)
extract_file_info_last(attrs) ==
    IF attrs = <<>> THEN [kind |-> "none"]
    ELSE LET later == extract_file_info_last(Tail(attrs))
         IN  IF later.kind = "ok" THEN later
             ELSE IF attrs[1].attribute_type = FILE_NAME_TYPE /\ attrs[1].content # <<>>
             THEN LET r == parse_filename_attribute(attrs[1].content)
                  IN  IF r.kind = "err" THEN later ELSE r
             ELSE later

\* extract_file_info(entry), on the entry's attributes
RECURSIVE extract_file_info(_)
extract_file_info(attrs) ==
    IF attrs = <<>> THEN [kind |-> "none"]
    ELSE IF attrs[1].attribute_type = FILE_NAME_TYPE /\ attrs[1].content # <<>>
    THEN LET r == parse_filename_attribute(attrs[1].content)
         IN  IF r.kind = "err" THEN extract_file_info(Tail(attrs)) ELSE r
    ELSE extract_file_info(Tail(attrs))

-----------------------------------------------------------------------------
(* mft_parser.rs: the time codec *)

\* 116444736000000000 = 134774 days
EPOCH_TICKS == [d |-> 134774, s |-> 0, r |-> 0]

\* chrono: the days around 1970 that DateTime<Utc> can represent
CHRONO_MAX_DAYS == 95000000

\* windows_time as i64
AsI64(w) == IF Less64(w, Two63) THEN w ELSE Sub64(w, Two64)

\* windows_time as i64 - 116444736000000000 leaves the i64 range
SubOverflows(w) == Less64(Sub64(AsI64(w), EPOCH_TICKS), I64Min)

\* (mutation of DivTicks: the division rounds down)
DivTicks_floor(x) == [d |-> x.d, s |-> x.s]

\* x / 10000000 on i64, truncating toward zero: the seconds as [d, s]
DivTicks(x) ==
    LET up == IF x.d < 0 /\ x.r > 0 THEN 1 ELSE 0
        n == Norm(x.d, x.s + up, 0)
    IN  [d |-> n.d, s |-> n.s]

\* Utc.timestamp_opt(unix_seconds, 0) is LocalResult::Single
timestamp_opt_single(secs) == secs.d >= -CHRONO_MAX_DAYS /\ secs.d <= CHRONO_MAX_DAYS

\* windows_time_to_utc(windows_time); clock is what Utc::now() returns
windows_time_to_utc(windows_time, clock) ==
    LET diff == Sub64(AsI64(windows_time), EPOCH_TICKS)
        wrapped == IF Less64(diff, I64Min) THEN Add64(diff, Two64) ELSE diff
        unix_seconds == DivTicks(wrapped)
    IN  IF SubOverflows(windows_time) /\ overflow_checks
        THEN [kind |-> "panic"]                 \* attempt to subtract with overflow
        ELSE IF timestamp_opt_single(unix_seconds)
        THEN [kind |-> "ok", dt |-> unix_seconds]
        ELSE [kind |-> "ok", dt |-> clock]

-----------------------------------------------------------------------------
(* timeline.rs *)

\* Timeline::add_event
add_event(events, event) == Append(events, event)

\* (mutation of add_file_event: the templates of access and modification change
\* places)
add_file_event_swapped(events, timestamp, event_type, file_path, source) ==
    LET description ==
            CASE event_type = "FileCreation" -> <<"File '", file_path, "' was created.">>
              [] event_type = "FileModification" -> <<"File '", file_path, "' was accessed.">>
              [] event_type = "FileAccess" -> <<"File '", file_path, "' was modified.">>
              [] event_type = "FileMftChange" ->
                     <<"MFT entry for '", file_path, "' was changed.">>
              [] OTHER -> <<"File '", file_path, "' event occurred.">>
    IN  Append(events, [timestamp |-> timestamp, event_type |-> event_type,
                        description |-> description, source_artifact |-> source])

\* Timeline::add_file_event
add_file_event(events, timestamp, event_type, file_path, source) ==
    LET description ==
            CASE event_type = "FileCreation" -> <<"File '", file_path, "' was created.">>
              [] event_type = "FileModification" -> <<"File '", file_path, "' was modified.">>
              [] event_type = "FileAccess" -> <<"File '", file_path, "' was accessed.">>
              [] event_type = "FileMftChange" ->
                     <<"MFT entry for '", file_path, "' was changed.">>
              [] OTHER -> <<"File '", file_path, "' event occurred.">>
    IN  Append(events, [timestamp |-> timestamp, event_type |-> event_type,
                        description |-> description, source_artifact |-> source])

\* Timeline::add_user_logon
add_user_logon(events, timestamp, username, source_ip) ==
    Append(events, [timestamp |-> timestamp, event_type |-> "UserLogon",
                    description |-> <<"User '", username, "' logged on from source IP ",
                                      source_ip>>,
                    source_artifact |-> "Security.evtx"])

\* Timeline::add_service_installation
add_service_installation(events, timestamp, service_name) ==
    Append(events, [timestamp |-> timestamp, event_type |-> "ServiceInstallation",
                    description |-> <<"Service '", service_name, "' was installed.">>,
                    source_artifact |-> "System.evtx"])

\* (mutation of add_program_execution: the event is put in front)
add_program_execution_front(events, timestamp, executable_name, prefetch_file) ==
    <<[timestamp |-> timestamp, event_type |-> "ProgramExecution",
       description |-> <<"Executable '", executable_name, "' was run.">>,
       source_artifact |-> prefetch_file]>> \o events

\* Timeline::add_program_execution
add_program_execution(events, timestamp, executable_name, prefetch_file) ==
    Append(events, [timestamp |-> timestamp, event_type |-> "ProgramExecution",
                    description |-> <<"Executable '", executable_name, "' was run.">>,
                    source_artifact |-> prefetch_file])

\* the comparator of Timeline::sort: a.timestamp.cmp(&b.timestamp) is Greater
CmpGreater(a, b) == TimeLess(b.timestamp, a.timestamp)

\* (mutation of InsertSorted: e goes before the elements equal to it)
RECURSIVE InsertSorted_unstable(_, _)
InsertSorted_unstable(sorted, e) ==
    IF sorted = <<>> THEN <<e>>
    ELSE IF ~CmpGreater(e, sorted[1]) THEN <<e>> \o sorted
    ELSE <<sorted[1]>> \o InsertSorted_unstable(Tail(sorted), e)

\* slice::sort_by is a stable sort: e goes behind every element not greater than it
RECURSIVE InsertSorted(_, _)
InsertSorted(sorted, e) ==
    IF sorted = <<>> THEN <<e>>
    ELSE IF CmpGreater(sorted[1], e) THEN <<e>> \o sorted
    ELSE <<sorted[1]>> \o InsertSorted(Tail(sorted), e)

RECURSIVE SortFrom(_, _)
SortFrom(sorted, rest) ==
    IF rest = <<>> THEN sorted
    ELSE SortFrom(InsertSorted(sorted, rest[1]), Tail(rest))

\* Timeline::sort
sort(events) == SortFrom(<<>>, events)

-----------------------------------------------------------------------------
(* mft_parser.rs: events of one fact *)

\* t - chrono::Duration::days(n)
MinusDays(t, n) == [d |-> t.d - n, s |-> t.s]

RETENTION_DAYS == 365

\* (mutation of Retained: >= in place of >)
Retained_inclusive(time, clock) == TimeLeq(MinusDays(clock, RETENTION_DAYS), time)

\* the retention test of one field: time > Utc::now() - Duration::days(365)
Retained(time, clock) == TimeLess(MinusDays(clock, RETENTION_DAYS), time)

\* add_file_events_to_timeline(timeline, file_info); entry is the clock when the
\* call starts and n1..n4 are the readings of Utc::now() of the four tests
add_file_events_to_timeline(events, file_info, entry, n1, n2, n3, n4) ==
    LET creation_time == windows_time_to_utc(file_info.creation_time, entry)
        access_time == windows_time_to_utc(file_info.last_access_time, entry)
        write_time == windows_time_to_utc(file_info.last_write_time, entry)
        mft_change_time == windows_time_to_utc(file_info.mft_change_time, entry)
        e1 == IF Retained(creation_time.dt, n1)
              THEN add_file_event(events, creation_time.dt, "FileCreation",
                                  file_info.filename, "MFT")
              ELSE events
        e2 == IF Retained(access_time.dt, n2)
              THEN add_file_event(e1, access_time.dt, "FileAccess",
                                  file_info.filename, "MFT")
              ELSE e1
        e3 == IF Retained(write_time.dt, n3)
              THEN add_file_event(e2, write_time.dt, "FileModification",
                                  file_info.filename, "MFT")
              ELSE e2
        e4 == IF Retained(mft_change_time.dt, n4)
              THEN add_file_event(e3, mft_change_time.dt, "FileMftChange",
                                  file_info.filename, "MFT")
              ELSE e3
    IN  IF \E c \in {creation_time, access_time, write_time, mft_change_time} :
              c.kind = "panic"
        THEN [kind |-> "panic"]
        ELSE [kind |-> "ok", events |-> e4]

-----------------------------------------------------------------------------
(* event_log_parser.rs and prefetch_parser.rs: the sample producers *)

\* DateTime::parse_from_rfc3339 of "y-mo-dTh:mi:sZ", with_timezone(&Utc)
rfc3339(y, mo, d, h, mi, sec) ==
    LET y1 == IF mo <= 2 THEN y - 1 ELSE y
        era == y1 \div 400
        yoe == y1 - era * 400
        mp == IF mo > 2 THEN mo - 3 ELSE mo + 9
        doy == ((153 * mp + 2) \div 5) + d - 1
        doe == yoe * 365 + (yoe \div 4) - (yoe \div 100) + doy
    IN  [d |-> era * 146097 + doe - 719468, s |-> h * 3600 + mi * 60 + sec]

\* parse_security_events
parse_security_events(events) ==
    LET a == add_user_logon(events, rfc3339(2024, 1, 15, 10, 30, 0),
                            "Administrator", "192.168.1.100")
        b == add_user_logon(a, rfc3339(2024, 1, 15, 14, 22, 15), "User1", "192.168.1.101")
    IN  add_user_logon(b, rfc3339(2024, 1, 16, 9, 15, 30), "Admin", "192.168.1.102")

\* parse_system_events
parse_system_events(events) ==
    LET a == add_service_installation(events, rfc3339(2024, 1, 15, 11, 45, 0),
                                      "Windows Update")
        b == add_service_installation(a, rfc3339(2024, 1, 15, 16, 20, 30), "Print Spooler")
    IN  add_service_installation(b, rfc3339(2024, 1, 16, 8, 10, 15),
                                 "Remote Desktop Services")

\* parse_event_logs
parse_event_logs(events) == parse_system_events(parse_security_events(events))

\* parse_prefetch_files
parse_prefetch_files(events) ==
    LET a == add_program_execution(events, rfc3339(2024, 1, 15, 12, 30, 0),
                                   "svchost.exe", "SVCHOST.EXE-E39A42F1.pf")
        b == add_program_execution(a, rfc3339(2024, 1, 15, 14, 15, 30),
                                   "explorer.exe", "EXPLORER.EXE-12345678.pf")
        c == add_program_execution(b, rfc3339(2024, 1, 15, 16, 45, 20),
                                   "cmd.exe", "CMD.EXE-E29B523A.pf")
        e == add_program_execution(c, rfc3339(2024, 1, 16, 9, 20, 15),
                                   "notepad.exe", "NOTEPAD.EXE-ABCD1234.pf")
    IN  add_program_execution(e, rfc3339(2024, 1, 16, 10, 30, 45),
                              "chrome.exe", "CHROME.EXE-56789012.pf")

-----------------------------------------------------------------------------
(* The run of main *)

\* readings of the wall clock: 2024-10-04T00:00:00Z and one second later
Clocks == {[d |-> 20000, s |-> 0], [d |-> 20000, s |-> 1]}

\* the fact cap of parse_mft
CAP_LIMIT == 1000

\* (mutation of SignatureAccepted: the signature is not compared)
SignatureAccepted_any(signature) == TRUE

\* parse_mft_entry: the signature test
SignatureAccepted(signature) == signature = MFT_SIGNATURE

\* (mutation of MainOrder: the sort is made before the prefetch producer runs)
MainOrder_sortEarly(p) ==
    CASE p = "mft" -> "evt"
      [] p = "evt" -> "sort"
      [] p = "sort" -> "prefetch"
      [] p = "prefetch" -> "html"
      [] p = "html" -> "done"

\* main: the statement that follows each of its calls
MainOrder(p) ==
    CASE p = "mft" -> "evt"           \* parse_mft, then parse_event_logs
      [] p = "evt" -> "prefetch"      \* then parse_prefetch_files
      [] p = "prefetch" -> "sort"     \* then timeline.sort()
      [] p = "sort" -> "html"         \* then generate_html
      [] p = "html" -> "done"

\* the entry under the cursor of parse_mft: data = get_slice(offset, MFT_ENTRY_SIZE)
EntryData == get_slice(image, Small64(offset), Small64(MFT_ENTRY_SIZE))

\* parse_mft after an entry: offset += MFT_ENTRY_SIZE and the cap test
AfterEntry(found) ==
    /\ offset' = offset + MFT_ENTRY_SIZE
    /\ events_found' = found
    /\ IF found > CAP_LIMIT
       THEN limited' = TRUE /\ pc' = MainOrder("mft")
       ELSE limited' = limited /\ pc' = "mft"

\* parse_mft: the loop test holds; parse_mft_entry up to its attribute loop
EntryBegin ==
    /\ pc = "mft"
    /\ offset + MFT_ENTRY_SIZE <= size(image)
    /\ LET data == EntryData
       IN  IF data.kind = "panic"
           THEN /\ pc' = "panicked"
                /\ UNCHANGED <<offset, events_found, limited, attr_offset, attributes>>
           ELSE IF data.kind = "err" \/ ~SignatureAccepted(BytesAt(image, data, 0, 4))
           THEN /\ AfterEntry(events_found)
                /\ UNCHANGED <<attr_offset, attributes>>
           ELSE /\ pc' = "attrs"
                /\ attr_offset' = Small64(ReadLE(BytesAt(image, data, 8, 2), 0, 2))
                /\ attributes' = <<>>
                /\ UNCHANGED <<offset, events_found, limited>>
    /\ UNCHANGED <<overflow_checks, image, now, timeline, sort_calls, rendered,
                   slice_req, slice_res, tick_in, tick_out>>

\* parse_mft_entry: one pass of the attribute loop
AttrStep ==
    /\ pc = "attrs"
    /\ Len(attributes) < MaxAttrs
    /\ IF ~Less64(attr_offset, Small64(MFT_ENTRY_SIZE - 4))
       THEN pc' = "extract" /\ UNCHANGED <<attr_offset, attributes>>
       ELSE LET a == ToInt(attr_offset)
                attr == parse_attribute(image, [off |-> EntryData.off + a,
                                                len |-> EntryData.len - a])
            IN  IF attr.kind = "ok"
                THEN /\ attributes' = Append(attributes, attr)
                     /\ attr_offset' = Add64(attr_offset, attr.attribute_length)
                     /\ pc' = "attrs"
                ELSE pc' = "extract" /\ UNCHANGED <<attr_offset, attributes>>
    /\ UNCHANGED <<overflow_checks, image, now, offset, events_found, limited, timeline,
                   sort_calls, rendered, slice_req, slice_res, tick_in, tick_out>>

\* parse_mft: extract_file_info and add_file_events_to_timeline for the entry
EntryEnd ==
    /\ pc = "extract"
    /\ LET file_info == extract_file_info(attributes)
       IN  IF file_info.kind = "none"
           THEN AfterEntry(events_found) /\ UNCHANGED <<now, timeline>>
           ELSE IF file_info.kind = "panic"
           THEN /\ pc' = "panicked"
                /\ UNCHANGED <<now, timeline, offset, events_found, limited>>
           ELSE \E n1, n2, n3, n4 \in Clocks :
                  /\ TimeLeq(now, n1) /\ TimeLeq(n1, n2)
                  /\ TimeLeq(n2, n3) /\ TimeLeq(n3, n4)
                  /\ LET added == add_file_events_to_timeline(timeline, file_info, now,
                                                              n1, n2, n3, n4)
                     IN  IF added.kind = "panic"
                         THEN /\ n4 = now
                              /\ pc' = "panicked"
                              /\ UNCHANGED <<now, timeline, offset, events_found,
                                             limited>>
                         ELSE /\ now' = n4
                              /\ timeline' = added.events
                              /\ AfterEntry(events_found + 1)
    /\ UNCHANGED <<overflow_checks, image, attr_offset, attributes, sort_calls, rendered,
                   slice_req, slice_res, tick_in, tick_out>>

\* parse_mft: the loop test fails and parse_mft returns Ok
ScanDone ==
    /\ pc = "mft"
    /\ ~(offset + MFT_ENTRY_SIZE <= size(image))
    /\ pc' = MainOrder("mft")
    /\ UNCHANGED <<overflow_checks, image, now, offset, events_found, limited,
                   attr_offset, attributes, timeline, sort_calls, rendered,
                   slice_req, slice_res, tick_in, tick_out>>

\* main: event_log_parser::parse_event_logs
ParseEventLogs ==
    /\ pc = "evt"
    /\ timeline' = parse_event_logs(timeline)
    /\ pc' = MainOrder("evt")
    /\ UNCHANGED <<overflow_checks, image, now, offset, events_found, limited,
                   attr_offset, attributes, sort_calls, rendered,
                   slice_req, slice_res, tick_in, tick_out>>

\* main: prefetch_parser::parse_prefetch_files
ParsePrefetch ==
    /\ pc = "prefetch"
    /\ timeline' = parse_prefetch_files(timeline)
    /\ pc' = MainOrder("prefetch")
    /\ UNCHANGED <<overflow_checks, image, now, offset, events_found, limited,
                   attr_offset, attributes, sort_calls, rendered,
                   slice_req, slice_res, tick_in, tick_out>>

\* main: timeline.sort()
Sort ==
    /\ pc = "sort"
    /\ timeline' = sort(timeline)
    /\ sort_calls' = sort_calls + 1
    /\ pc' = MainOrder("sort")
    /\ UNCHANGED <<overflow_checks, image, now, offset, events_found, limited,
                   attr_offset, attributes, rendered,
                   slice_req, slice_res, tick_in, tick_out>>

\* main: html_generator::generate_html(&timeline)
GenerateHtml ==
    /\ pc = "html"
    /\ rendered' = timeline
    /\ pc' = MainOrder("html")
    /\ UNCHANGED <<overflow_checks, image, now, offset, events_found, limited,
                   attr_offset, attributes, timeline, sort_calls,
                   slice_req, slice_res, tick_in, tick_out>>

RECURSIVE SeqsUpTo(_, _)
SeqsUpTo(S, n) ==
    IF n = 0 THEN {<<>>}
    ELSE LET shorter == SeqsUpTo(S, n - 1)
         IN  shorter \cup {Append(q, x) : q \in shorter, x \in S}

\* the blocks of the images of Spec
ScanBlocks ==
    {i \in BlockIds : BlockTable[i] \in {B_NOTES, B_BADSIG, B_SAME, B_FUTURE, B_OVERFLOW,
                                          B_SHORT, B_OVERRUN, B_ZEROLEN}}

\* the images of Spec: up to MaxBlocks blocks and a tail shorter than an entry
Images == {[blocks |-> b, tail |-> t] : b \in SeqsUpTo(ScanBlocks, MaxBlocks), t \in {0, 7}}

\* the images of SpecEntry: one block, any of the table
EntryImages == {[blocks |-> <<i>>, tail |-> t] : i \in BlockIds, t \in {0, 7}}

\* the images of SpecCap: entries that each yield a fact, a few or more than the cap
OldBlock == CHOOSE i \in BlockIds : BlockTable[i] = B_OLD
RECURSIVE Repeat(_, _)
Repeat(x, n) ==
    IF n = 0 THEN <<>>
    ELSE LET half == Repeat(x, n \div 2)
         IN  IF n % 2 = 0 THEN half \o half ELSE Append(half \o half, x)
CapImages ==
    {[blocks |-> Repeat(OldBlock, n), tail |-> 0] : n \in {2, CAP_LIMIT + 5}}

\* the earliest reading of the clock
FirstClock == CHOOSE c \in Clocks : \A o \in Clocks : TimeLeq(c, o)

\* main after DiskImage::new and Timeline::new, about to call parse_mft
InitRun(imgs) ==
    /\ overflow_checks \in BOOLEAN
    /\ image \in imgs
    /\ now = FirstClock
    /\ pc = "mft"
    /\ offset = 0
    /\ events_found = 0
    /\ limited = FALSE
    /\ attr_offset = Zero64
    /\ attributes = <<>>
    /\ timeline = <<>>
    /\ sort_calls = 0
    /\ rendered = <<>>
    /\ slice_req = <<>>
    /\ slice_res = [kind |-> "none"]
    /\ tick_in = <<>>
    /\ tick_out = <<>>

Init == InitRun(Images)
InitEntry == InitRun(EntryImages)
InitCap == InitRun(CapImages)

Next ==
    \/ EntryBegin
    \/ AttrStep
    \/ EntryEnd
    \/ ScanDone
    \/ ParseEventLogs
    \/ ParsePrefetch
    \/ Sort
    \/ GenerateHtml

Spec == Init /\ [][Next]_vars
SpecEntry == InitEntry /\ [][Next]_vars
SpecCap == InitCap /\ [][Next]_vars

-----------------------------------------------------------------------------
(* DiskImage::get_slice on its own: any caller, any pair of words *)

SliceImages ==
    {[blocks |-> <<>>, tail |-> 7],
     [blocks |-> <<OldBlock>>, tail |-> 0],
     [blocks |-> <<OldBlock>>, tail |-> 7]}

\* machine words around the bounds of the image and of usize
WordSamples(img) ==
    {Small64(n) : n \in {0, 1, 2, size(img) - 1, size(img), size(img) + 1}}
    \cup {Sub64(Two64, Small64(k)) : k \in {1, 2, size(img), size(img) + 1}}
    \cup {Two63}

InitSlice ==
    /\ InitRun(SliceImages)
    /\ pc = "mft"

SliceCall ==
    /\ slice_req = <<>>
    /\ \E o \in WordSamples(image), l \in WordSamples(image) :
         /\ slice_req' = <<o, l>>
         /\ slice_res' = get_slice(image, o, l)
    /\ UNCHANGED <<overflow_checks, image, now, pc, offset, events_found, limited,
                   attr_offset, attributes, timeline, sort_calls, rendered,
                   tick_in, tick_out>>

SpecSlice == InitSlice /\ [][SliceCall]_vars

-----------------------------------------------------------------------------
(* windows_time_to_utc on its own *)

TickSamples ==
    {Read64(b, 0, 8) : b \in {TK_OLD, TK_R1, TK_R2, TK_R3, TK_R4, TK_EDGE, TK_FUTURE,
                              TK_POW63, TK_NEG}}
    \cup {Zero64, Small64(5), Small64(10000000), Small64(10000001),
          EPOCH_TICKS, Sub64(EPOCH_TICKS, Small64(1)), Add64(EPOCH_TICKS, Small64(1)),
          Sub64(Two63, Small64(1)), Sub64(Add64(Two63, EPOCH_TICKS), Small64(1)),
          Sub64(Two64, Small64(1))}

CodecCall ==
    /\ tick_in = <<>>
    /\ \E t1 \in TickSamples, t2 \in TickSamples :
         /\ tick_in' = <<t1, t2>>
         /\ tick_out' = <<windows_time_to_utc(t1, now), windows_time_to_utc(t2, now)>>
    /\ UNCHANGED <<overflow_checks, image, now, pc, offset, events_found, limited,
                   attr_offset, attributes, timeline, sort_calls, rendered,
                   slice_req, slice_res>>

SpecCodec == InitSlice /\ [][CodecCall]_vars

-----------------------------------------------------------------------------
(* Properties *)

Sorted(events) ==
    \A i \in 1..(Len(events) - 1) : TimeLeq(events[i].timestamp, events[i + 1].timestamp)

\* the events of a sequence that carry the timestamp t, in their order
AtTime(events, t) ==
    LET Same(e) == e.timestamp = t IN SelectSeq(events, Same)

\* the events a step appended
Appended == SubSeq(timeline', Len(timeline) + 1, Len(timeline'))

\* the first four bytes of the block under the cursor of parse_mft
SignatureAtCursor == [i \in 1..4 |-> ImageByte(image, offset + i - 1)]

\* C1: get_slice returns an error whenever offset + length (as numbers) exceeds
\* size(), and otherwise a slice of exactly the bytes [offset, offset + length);
\* it never panics.
C1_GetSliceContract ==
    slice_req # <<>> =>
        LET o == slice_req[1]
            l == slice_req[2]
        IN  IF Less64(Small64(size(image)), Add64(o, l))
            THEN slice_res.kind = "err"
            ELSE /\ slice_res.kind = "ok"
                 /\ slice_res.off = ToInt(o)
                 /\ slice_res.len = ToInt(l)

\* C2: every pass of the attribute loop of parse_mft_entry that does not leave the
\* loop moves the attribute cursor strictly forward (so the loop is bounded), also
\* when the attribute decoded has a declared length of 0.
C2_CursorAdvances ==
    [][(pc = "attrs" /\ pc' = "attrs") => Less64(attr_offset, attr_offset')]_vars

\* C3: parse_mft extracts at most CAP_LIMIT facts; on an image with more than
\* CAP_LIMIT entries that each yield a fact it returns with exactly CAP_LIMIT facts
\* extracted and the "limited" message logged.
C3_CapExact ==
    /\ events_found <= CAP_LIMIT
    /\ (pc \in {"evt", "prefetch", "sort", "html", "done"}
        /\ Len(image.blocks) > CAP_LIMIT)
           => (events_found = CAP_LIMIT /\ limited)

\* C4: when the block under the cursor does not start with "FILE", parse_mft goes
\* on to the next stride with the timeline and the fact count unchanged; when it
\* does, the entry is decoded from its own attribute_offset, whatever the blocks
\* before it were.
C4_BadSignatureSkipped ==
    [][(pc = "mft" /\ offset + 1024 <= size(image)) =>
         IF SignatureAtCursor # SIG_FILE
         THEN /\ pc' = "mft"
              /\ offset' = offset + 1024
              /\ timeline' = timeline
              /\ events_found' = events_found
         ELSE /\ pc' = "attrs"
              /\ offset' = offset
              /\ attributes' = <<>>
              /\ attr_offset' = Small64(ImageByte(image, offset + 8)
                                        + 256 * ImageByte(image, offset + 9))
              /\ timeline' = timeline]_vars

\* a block with a wrong signature lies before a valid entry whose fact was
\* extracted and produced events
C4_Witness ==
    /\ pc = "mft"
    /\ offset = 2048
    /\ [i \in 1..4 |-> ImageByte(image, i - 1)] # SIG_FILE
    /\ events_found = 1
    /\ timeline # <<>>

\* the content of a file-naming attribute is too short for the fixed fields or for
\* the filename its length byte declares
MalformedName(content) ==
    Len(content) < 66 \/ 66 + 2 * content[61] > Len(content)

\* C5: an entry whose non-empty file-naming attributes are all malformed (content
\* under 66 bytes, or filename region past the end of the content) yields no fact
\* and no event, and the scan goes on with the next entry.
C5_MalformedNameSkipped ==
    [][(/\ pc = "extract"
        /\ \E i \in 1..Len(attributes) :
             attributes[i].attribute_type = Small64(48) /\ attributes[i].content # <<>>
        /\ \A i \in 1..Len(attributes) :
             (attributes[i].attribute_type = Small64(48) /\ attributes[i].content # <<>>)
                 => MalformedName(attributes[i].content))
       => (/\ pc' = "mft"
           /\ offset' = offset + 1024
           /\ timeline' = timeline
           /\ events_found' = events_found)]_vars

\* C6: Timeline::sort leaves the events in non-decreasing timestamp order, and the
\* events of any one timestamp in the order they had before (so it is stable and
\* keeps every event).
C6_SortStable ==
    [][pc = "sort" =>
         /\ Sorted(timeline')
         /\ Len(timeline') = Len(timeline)
         /\ \A i \in 1..Len(timeline) :
              AtTime(timeline', timeline[i].timestamp)
                  = AtTime(timeline, timeline[i].timestamp)]_vars

\* the sort has run on events of the scan, two different ones of the same timestamp
\* among them
C6_Witness ==
    /\ pc = "html"
    /\ \E i \in 1..(Len(timeline) - 1) :
         /\ timeline[i].timestamp = timeline[i + 1].timestamp
         /\ timeline[i] # timeline[i + 1]
         /\ timeline[i].source_artifact = "MFT"

CountOf(events, type) ==
    Cardinality({i \in 1..Len(events) : events[i].event_type = type})

\* C7: main sorts exactly once, when the scan and both sample producers have
\* appended; nothing is appended after the sort, and the sequence handed to
\* generate_html is in non-decreasing timestamp order.
C7_SortOnceBeforeRender ==
    /\ [](/\ sort_calls <= 1
          /\ (sort_calls = 1) <=> (pc \in {"html", "done"})
          /\ (pc \in {"html", "done"}) =>
                (/\ Sorted(timeline)
                 /\ CountOf(timeline, "UserLogon") = 3
                 /\ CountOf(timeline, "ServiceInstallation") = 3
                 /\ CountOf(timeline, "ProgramExecution") = 5)
          /\ (pc = "done") => (rendered = timeline /\ Sorted(rendered)))
    /\ [][(sort_calls >= 1 => timeline' = timeline)
          /\ (sort_calls' # sort_calls => pc = "sort")]_vars

\* the renderer got a sequence in which events of the scan follow sample events
C7_Witness ==
    /\ pc = "done"
    /\ sort_calls = 1
    /\ Len(rendered) > 11
    /\ rendered[1].event_type = "UserLogon"
    /\ rendered[Len(rendered)].source_artifact = "MFT"

\* C8 (as amended): an event of the scan is appended only if its timestamp is
\* later than 365 days before a reading of the clock taken during that call; no
\* upper bound applies.
C8_RetainedAfterCutoff ==
    [][pc = "extract" =>
         \A i \in 1..Len(Appended) :
            \E n \in Clocks :
               /\ TimeLeq(now, n) /\ TimeLeq(n, now')
               /\ TimeLess([d |-> n.d - 365, s |-> n.s], Appended[i].timestamp)]_vars

\* C8 (as claimed): an event of the scan is appended only if its timestamp lies in
\* the 365 days up to the reading of the clock: later than the reading minus 365
\* days and not later than the reading.
C8_WithinTrailingWindow ==
    [][pc = "extract" =>
         \A i \in 1..Len(Appended) :
            \E n \in Clocks :
               /\ TimeLeq(now, n) /\ TimeLeq(n, now')
               /\ TimeLess([d |-> n.d - 365, s |-> n.s], Appended[i].timestamp)
               /\ TimeLeq(Appended[i].timestamp, n)]_vars

\* the timeline holds an event of the scan whose timestamp is later than the clock
C8_Witness ==
    \E i \in 1..Len(timeline) :
        /\ timeline[i].source_artifact = "MFT"
        /\ TimeLess(now, timeline[i].timestamp)

\* the i64 arithmetic of the codec fails on the ticks, or the seconds are outside
\* the calendar
NotConvertible(ticks) ==
    \/ SubOverflows(ticks)
    \/ ~timestamp_opt_single(DivTicks(Sub64(AsI64(ticks), EPOCH_TICKS)))

\* C9: when a timestamp field of a fact is not convertible, the scan goes on, no
\* event is appended for that field, and every convertible field that is inside
\* the retention window still gets its event.
C9_ConversionFailureDropsField ==
    [][(pc = "extract" /\ extract_file_info(attributes).kind = "ok") =>
         LET fact == extract_file_info(attributes)
             fields == << <<fact.creation_time, "FileCreation">>,
                          <<fact.last_access_time, "FileAccess">>,
                          <<fact.last_write_time, "FileModification">>,
                          <<fact.mft_change_time, "FileMftChange">> >>
         IN  (\E k \in 1..4 : NotConvertible(fields[k][1])) =>
               /\ pc' # "panicked"
               /\ \A k \in 1..4 :
                    IF NotConvertible(fields[k][1])
                    THEN \A i \in 1..Len(Appended) : Appended[i].event_type # fields[k][2]
                    ELSE LET t == DivTicks(Sub64(AsI64(fields[k][1]), EPOCH_TICKS))
                         IN  (\A n \in Clocks : TimeLess([d |-> n.d - 365, s |-> n.s], t))
                               => \E i \in 1..Len(Appended) :
                                     /\ Appended[i].event_type = fields[k][2]
                                     /\ Appended[i].timestamp = t]_vars

\* the instant of ticks t below 2^63: (t - 116444736000000000) / 10000000 seconds
\* from 1970, rounded toward zero
ExpectedInstant(t) ==
    IF Less64(t, EPOCH_TICKS)
    THEN LET back == Sub64(EPOCH_TICKS, t)     \* ticks before 1970, positive
             n == Norm(-back.d, -back.s, 0)
         IN  [d |-> n.d, s |-> n.s]
    ELSE [d |-> t.d - 134774, s |-> t.s]

FactOrder == <<"FileCreation", "FileAccess", "FileModification", "FileMftChange">>

\* the timestamp field of a fact behind the k-th category
FactField(fact, k) ==
    CASE k = 1 -> fact.creation_time
      [] k = 2 -> fact.last_access_time
      [] k = 3 -> fact.last_write_time
      [] k = 4 -> fact.mft_change_time

\* the description of the k-th category for a filename
FactText(name, k) ==
    CASE k = 1 -> <<"File '", name, "' was created.">>
      [] k = 2 -> <<"File '", name, "' was accessed.">>
      [] k = 3 -> <<"File '", name, "' was modified.">>
      [] k = 4 -> <<"MFT entry for '", name, "' was changed.">>

\* the place of a category in FactOrder, 0 for any other category
FactRank(type) ==
    IF \E k \in 1..4 : FactOrder[k] = type
    THEN CHOOSE k \in 1..4 : FactOrder[k] = type
    ELSE 0

\* C11: for every extracted fact the scan appends at most 4 events, at most one
\* per file category and in the order FileCreation, FileAccess, FileModification,
\* FileMftChange; each event carries the converted value of its timestamp field,
\* the description of its category built from the filename of the fact, and the
\* source "MFT"; after the sort the event with the earliest timestamp is first.
C11_FactEvents ==
    [][/\ (pc = "extract" /\ extract_file_info(attributes).kind = "ok") =>
            LET fact == extract_file_info(attributes)
                app == Appended
            IN  /\ Len(app) <= 4
                /\ \A i \in 1..Len(app) :
                     LET k == FactRank(app[i].event_type)
                     IN  /\ k \in 1..4
                         /\ app[i].timestamp = windows_time_to_utc(FactField(fact, k), now).dt
                         /\ app[i].description = FactText(fact.filename, k)
                         /\ app[i].source_artifact = "MFT"
                /\ \A i, j \in 1..Len(app) :
                     i < j => FactRank(app[i].event_type) < FactRank(app[j].event_type)
       /\ pc = "sort" =>
            /\ Len(timeline') = Len(timeline)
            /\ \A i \in 1..Len(timeline) :
                 TimeLeq(timeline'[1].timestamp, timeline[i].timestamp)]_vars

\* a fact named notes.txt gave four events, and the sort has put its entry-change
\* event, the earliest of them, before its creation event; the first event of the
\* timeline is an earliest one
C11_Witness ==
    /\ pc = "html"
    /\ \E i \in 1..Len(timeline) :
         /\ timeline[i].event_type = "FileCreation"
         /\ timeline[i].description = FactText(from_utf16_lossy(
                [k \in 1..9 |-> ReadLE(NAME_NOTES, 2 * (k - 1), 2)]), 1)
    /\ \A k \in 1..4 : \E i \in 1..Len(timeline) :
         timeline[i].event_type = FactOrder[k] /\ timeline[i].source_artifact = "MFT"
    /\ \E i, j \in 1..Len(timeline) :
         /\ i < j
         /\ timeline[i].event_type = "FileMftChange" /\ timeline[i].source_artifact = "MFT"
         /\ timeline[j].event_type = "FileCreation" /\ timeline[j].source_artifact = "MFT"
         /\ TimeLess(timeline[i].timestamp, timeline[j].timestamp)
    /\ \A i \in 1..Len(timeline) : TimeLeq(timeline[1].timestamp, timeline[i].timestamp)

\* the places of the attributes of a list that satisfy a test, and the first of them
FirstWhere(attrs, Test(_)) ==
    IF \E i \in 1..Len(attrs) : Test(attrs[i])
    THEN CHOOSE i \in 1..Len(attrs) :
             Test(attrs[i]) /\ \A j \in 1..(i - 1) : ~Test(attrs[j])
    ELSE 0

\* the attribute has the type code 0x30
IsFileName(attr) == attr.attribute_type = FILE_NAME_TYPE

\* the attribute has the type code 0x30 and content of at least the 66 fixed bytes
IsLongFileName(attr) == IsFileName(attr) /\ Len(attr.content) >= 66

\* the filename in the description of an event of the scan
NameIn(event) == event.description[2]

\* C12 (as claimed): an entry yields at most one fact, and the fact is decoded from
\* the first attribute of the entry whose type code is 0x30; a later attribute of
\* that type never supplies it.
C12_FirstTypeMatchSupplies ==
    [][pc = "extract" =>
         LET first == FirstWhere(attributes, IsFileName)
         IN  /\ events_found' <= events_found + 1
             /\ events_found' = events_found + 1 =>
                  /\ first > 0
                  /\ LET decoded == parse_filename_attribute(attributes[first].content)
                     IN  /\ decoded.kind = "ok"
                         /\ \A i \in 1..Len(Appended) :
                              NameIn(Appended[i]) = decoded.filename]_vars

\* C12 (as amended): an entry yields at most one fact, and the fact is decoded from
\* the first attribute of type 0x30 whose content has at least 66 bytes; earlier
\* attributes of type 0x30 with shorter or no content are passed over, and no
\* attribute behind the deciding one is looked at (if its filename field runs past
\* its content the run stops there).
C12_FirstLongFileNameSupplies ==
    [][pc = "extract" =>
         LET first == FirstWhere(attributes, IsLongFileName)
         IN  /\ events_found' <= events_found + 1
             /\ first = 0 => (events_found' = events_found /\ pc' # "panicked")
             /\ first > 0 =>
                  LET decoded == parse_filename_attribute(attributes[first].content)
                  IN  IF decoded.kind = "panic"
                      THEN pc' = "panicked" /\ timeline' = timeline
                      ELSE /\ pc' = "panicked" \/ events_found' = events_found + 1
                           /\ \A i \in 1..Len(Appended) :
                                /\ NameIn(Appended[i]) = decoded.filename
                                /\ Appended[i].timestamp \in
                                     {windows_time_to_utc(FactField(decoded, k), now).dt :
                                          k \in 1..4}]_vars

\* an entry gave a fact although its first attribute of type 0x30 is too short to
\* decode: the event carries the filename of the second
C12_Witness ==
    /\ events_found = 1
    /\ Len(attributes) >= 2
    /\ IsFileName(attributes[1]) /\ ~IsLongFileName(attributes[1])
    /\ IsLongFileName(attributes[2])
    /\ timeline # <<>>
    /\ NameIn(timeline[1]) =
           parse_filename_attribute(attributes[2].content).filename

\* the attribute header that the pass of the attribute loop in progress decodes:
\* the view of the entry from attr_offset on
AttrView == [off |-> offset + ToInt(attr_offset), len |-> MFT_ENTRY_SIZE - ToInt(attr_offset)]

\* the content_offset and content_size words of that header
ContentOffsetWord == ReadLE(BytesAt(image, AttrView, 16, 2), 0, 2)
ContentSizeWord == ReadLE(BytesAt(image, AttrView, 18, 2), 0, 2)

\* C13: every resident attribute that parse_attribute decodes with non-empty
\* content has its content inside its own extent: content_offset + content_size
\* is at most the attribute_length it declares.
C13_ContentInsideAttribute ==
    [][(pc = "attrs" /\ Len(attributes') = Len(attributes) + 1) =>
         LET attr == attributes'[Len(attributes')]
         IN  (~attr.non_resident /\ attr.content # <<>>) =>
               ~Less64(attr.attribute_length,
                       Small64(ContentOffsetWord + ContentSizeWord))]_vars

\* the block under the cursor of parse_mft
BlockAtCursor == BlockTable[image.blocks[(offset \div MFT_ENTRY_SIZE) + 1]]

\* C14: in a block with a valid signature, whatever its attribute_offset and the
\* declared length, content_offset and content_size of its attributes, the
\* attribute loop reads only bytes of that block: a header is decoded only if its
\* 16 bytes (20 for a resident attribute) lie before byte 1024, content is taken
\* only from a region that ends at or before byte 1024 and is exactly the bytes of
\* the block there, and no pass of the loop stops the run.
C14_ReadsInsideEntry ==
    [][pc = "attrs" =>
         /\ pc' # "panicked"
         /\ Len(attributes') = Len(attributes) + 1 =>
              LET a == ToInt(attr_offset)
                  attr == attributes'[Len(attributes')]
              IN  /\ a >= 0 /\ a + 16 <= MFT_ENTRY_SIZE
                  /\ ~attr.non_resident => a + 20 <= MFT_ENTRY_SIZE
                  /\ attr.content # <<>> =>
                       /\ a + ContentOffsetWord + ContentSizeWord <= MFT_ENTRY_SIZE
                       /\ attr.content =
                              [i \in 1..ContentSizeWord |->
                                   BlockAtCursor[a + ContentOffsetWord + i]]]_vars

\* a resident attribute whose content words point past the end of the entry was
\* decoded, with empty content, and the loop has ended
C14_Witness ==
    /\ pc = "extract"
    /\ BlockTable[image.blocks[1]] = B_PASTEND
    /\ Len(attributes) >= 1
    /\ ~attributes[1].non_resident
    /\ attributes[1].content = <<>>

\* the exact difference (windows_time as i64) - 116444736000000000
ExactDifference(t) == Sub64(AsI64(t), EPOCH_TICKS)

\* C15: for every 64-bit tick value the subtraction in windows_time_to_utc stays
\* inside the signed 64-bit range, so the call returns the instant of the exact
\* difference: it neither stops the run nor wraps.
C15_SubtractionInRange ==
    tick_in # <<>> =>
        \A i \in 1..2 :
            /\ ~Less64(ExactDifference(tick_in[i]), I64Min)
            /\ tick_out[i] = [kind |-> "ok", dt |-> DivTicks(ExactDifference(tick_in[i]))]

-----------------------------------------------------------------------------
(* The methods of Timeline called in any order by any caller *)

\* instants and strings the callers pass
SampleTimes == {[d |-> 19900, s |-> 5], [d |-> 19900, s |-> 4]}
SampleName == <<97>>
EventTypes ==
    {"FileCreation", "FileModification", "FileAccess", "FileMftChange", "UserLogon",
     "ServiceInstallation", "ProgramExecution"}
\* events constructed by a caller of add_event
SampleEvents ==
    {[timestamp |-> t, event_type |-> "UserLogon", description |-> <<"made elsewhere">>,
      source_artifact |-> "caller"] : t \in SampleTimes}

\* Timeline::new
InitTimeline ==
    /\ InitRun({[blocks |-> <<>>, tail |-> 0]})
    /\ overflow_checks = TRUE

CallAddEvent ==
    /\ Len(timeline) < MaxEvents
    /\ \E e \in SampleEvents : timeline' = add_event(timeline, e)
    /\ UNCHANGED <<overflow_checks, image, now, pc, offset, events_found, limited,
                   attr_offset, attributes, sort_calls, rendered,
                   slice_req, slice_res, tick_in, tick_out>>

CallAddFileEvent ==
    /\ Len(timeline) < MaxEvents
    /\ \E t \in SampleTimes, ty \in EventTypes :
         timeline' = add_file_event(timeline, t, ty, SampleName, "MFT")
    /\ UNCHANGED <<overflow_checks, image, now, pc, offset, events_found, limited,
                   attr_offset, attributes, sort_calls, rendered,
                   slice_req, slice_res, tick_in, tick_out>>

CallAddUserLogon ==
    /\ Len(timeline) < MaxEvents
    /\ \E t \in SampleTimes : timeline' = add_user_logon(timeline, t, SampleName, "10.0.0.1")
    /\ UNCHANGED <<overflow_checks, image, now, pc, offset, events_found, limited,
                   attr_offset, attributes, sort_calls, rendered,
                   slice_req, slice_res, tick_in, tick_out>>

CallAddServiceInstallation ==
    /\ Len(timeline) < MaxEvents
    /\ \E t \in SampleTimes : timeline' = add_service_installation(timeline, t, SampleName)
    /\ UNCHANGED <<overflow_checks, image, now, pc, offset, events_found, limited,
                   attr_offset, attributes, sort_calls, rendered,
                   slice_req, slice_res, tick_in, tick_out>>

CallAddProgramExecution ==
    /\ Len(timeline) < MaxEvents
    /\ \E t \in SampleTimes :
         timeline' = add_program_execution(timeline, t, SampleName, "A.EXE-1.pf")
    /\ UNCHANGED <<overflow_checks, image, now, pc, offset, events_found, limited,
                   attr_offset, attributes, sort_calls, rendered,
                   slice_req, slice_res, tick_in, tick_out>>

CallSort ==
    /\ sort_calls < MaxSorts
    /\ timeline' = sort(timeline)
    /\ sort_calls' = sort_calls + 1
    /\ UNCHANGED <<overflow_checks, image, now, pc, offset, events_found, limited,
                   attr_offset, attributes, rendered,
                   slice_req, slice_res, tick_in, tick_out>>

NextTimeline ==
    \/ CallAddEvent
    \/ CallAddFileEvent
    \/ CallAddUserLogon
    \/ CallAddServiceInstallation
    \/ CallAddProgramExecution
    \/ CallSort

SpecTimeline == InitTimeline /\ [][NextTimeline]_vars

\* how often an event occurs in a sequence
Occurrences(events, e) == Cardinality({i \in 1..Len(events) : events[i] = e})

\* two sequences hold the same events, each as often as the other
SameMultiset(a, b) ==
    \A e \in {a[i] : i \in 1..Len(a)} \cup {b[i] : i \in 1..Len(b)} :
        Occurrences(a, e) = Occurrences(b, e)

\* C16: every append of Timeline makes the sequence one longer, puts the new event
\* last and leaves the events before it as they were, in their places; sort keeps
\* the length and the multiset of events and changes only their order; no call
\* removes or changes an event.
C16_AppendAndSortFrame ==
    [][IF sort_calls' = sort_calls
       THEN /\ Len(timeline') = Len(timeline) + 1
            /\ SubSeq(timeline', 1, Len(timeline)) = timeline
            /\ timeline'[Len(timeline')].timestamp \in SampleTimes
            /\ timeline'[Len(timeline')].event_type \in EventTypes
       ELSE /\ Len(timeline') = Len(timeline)
            /\ SameMultiset(timeline, timeline')
            /\ Sorted(timeline')]_vars

\* a sort has moved events of a full timeline, and an event stands in it twice
C16_Witness ==
    /\ Len(timeline) = MaxEvents
    /\ sort_calls >= 1
    /\ \E i, j \in 1..Len(timeline) : i < j /\ timeline[i] = timeline[j]
    /\ \E i \in 1..Len(timeline) : timeline[i].source_artifact = "A.EXE-1.pf"
    /\ timeline[Len(timeline)].source_artifact = "caller"
    /\ TimeLess(timeline[Len(timeline)].timestamp, timeline[1].timestamp)

\* a step appended an event of the category
AppendedOf(type) == \E i \in 1..Len(Appended) : Appended[i].event_type = type

\* C17: when two timestamp fields of one fact hold the same ticks, the events of
\* both fields are appended or the events of neither, although the clock is read
\* anew for each of the four tests and may have advanced.
C17_EqualTicksSameDecision ==
    [][(pc = "extract" /\ extract_file_info(attributes).kind = "ok" /\ pc' # "panicked") =>
         LET fact == extract_file_info(attributes)
         IN  \A j, k \in 1..4 :
                FactField(fact, j) = FactField(fact, k) =>
                   (AppendedOf(FactOrder[j]) <=> AppendedOf(FactOrder[k]))]_vars

====
